---- MODULE Spec2Model ----
(***************************************************************************)
(* A model of the MedWell backend's inline route handlers                  *)
(* (src/server/server.js): user profile GET/POST/PUT, reminders GET/POST,  *)
(* the symptom checker and the chat proxy.                                 *)
(*                                                                         *)
(* Every handler is an async function with one await.  A handler is        *)
(* modelled by a "Receive" action (the synchronous part: destructuring,    *)
(* validation, issuing the call) and by the actions that run when the      *)
(* awaited call settles (the store operation together with the handler's   *)
(* continuation, or the catch block when the call rejects).                *)
(*                                                                         *)
(* req[c] is the exchange in progress (or the last one finished) on        *)
(* client connection c; a connection carries one request at a time.        *)
(***************************************************************************)
EXTENDS Integers, Sequences, FiniteSets, TLC

\* Bounds of the model.
MaxConn == 2
MaxUsers == 2
MaxReminders == 3
MaxSymptoms == 2
MaxHistory == 1

VARIABLES users, reminders, req

vars == <<users, reminders, req>>

\* A field that is absent from a JSON object (JavaScript's undefined).
Undefined == "undefined"

\* !v for a string-valued field: undefined and "" are falsy.
Falsy(v) == v = Undefined \/ v = ""

\* !dueDate: a date is a day number, 0 stands for an absent or falsy value.
NoDate == 0

----------------------------------------------------------------------------
\* Response bodies.  A body is a JSON object; the fields a body does not
\* have are Undefined, and data holds the document(s) sent with res.json(doc).

EmptyJson ==
  [message |-> Undefined, error |-> Undefined, data |-> <<>>,
   result |-> Undefined, response |-> Undefined]

JsonMessage(m) == [EmptyJson EXCEPT !.message = m]

JsonError(m, e) == [EmptyJson EXCEPT !.message = m, !.error = e]

JsonDoc(d) == [EmptyJson EXCEPT !.data = <<d>>]

JsonList(ds) == [EmptyJson EXCEPT !.data = ds]

\* A connection on which nothing has been received yet.
Idle ==
  [kind |-> "none", pc |-> "idle", q |-> Undefined, body |-> <<>>,
   status |-> 0, res |-> EmptyJson, calls |-> 0, resps |-> 0, sent |-> <<>>,
   settled |-> "no", value |-> Undefined]

\* A request as express hands it to the route handler.
Incoming(kind, q, body) == [Idle EXCEPT !.kind = kind, !.q = q, !.body = body]

\* res.status(s).json(b): the handler's response.
Respond(r, s, b) ==
  [r EXCEPT !.pc = "done", !.status = s, !.res = b, !.resps = @ + 1]

\* await <call>: the handler issues its asynchronous call and suspends.
Await(r) == [r EXCEPT !.pc = "pending", !.calls = @ + 1]

\* The awaited call resolves (with value v, for a completion), or rejects
\* with an error whose message is m.
Resolved(r, v) == [r EXCEPT !.settled = "resolved", !.value = v]

Rejected(r, m) == [r EXCEPT !.settled = "rejected", !.value = m]

\* A connection can take a new request when it carries none.
Free(c) == req[c].pc \in {"idle", "done"}

Pending(c, kind) == req[c].kind = kind /\ req[c].pc = "pending"

----------------------------------------------------------------------------
\* The users collection (models/UserProfile): a sequence of documents, in
\* insertion order; a document's position is its identity (_id).

\* A schema without the unique index.
NoUniqueIndex == FALSE

\* The schema declares userId unique (spec section 3, "User profile").
UserIdUnique == TRUE

\* Error messages of a rejected store or vendor call.
DuplicateKey == "E11000 duplicate key"
ErrMsgs == {"m1", "m2"}

\* A query that matches nothing.
findOneNull(us, userId) == 0

\* User.findOne({ userId }): the position of the first match, 0 for null.
findOne(us, userId) ==
  IF \E k \in 1..Len(us) : us[k].userId = userId
  THEN CHOOSE k \in 1..Len(us) :
         /\ us[k].userId = userId
         /\ \A j \in 1..(k - 1) : us[j].userId # userId
  ELSE 0

\* The fields of a profile document or body.
ProfileFields == {"userId", "name", "email", "age"}

\* An update that replaces the document instead of merging into it.
ReplaceFields(doc, upd) == upd

\* $set: the fields present in upd overwrite those of doc.
SetFields(doc, upd) ==
  [f \in ProfileFields |-> IF upd[f] # Undefined THEN upd[f] ELSE doc[f]]

\* An update document that leaves name out.
UpsertUpdateNoName(body) ==
  [body EXCEPT !.userId = Undefined, !.name = Undefined]

\* const { userId, name, email, ...rest } = req.body; the update document
\* { name, email, ...rest } never holds userId.
UpsertUpdate(body) == [body EXCEPT !.userId = Undefined]

\* The document an upsert inserts: the filter's userId and the update.
UpsertInsertDoc(body) == body

\* The unique index rejects a write that gives document k (0: a new
\* document) a userId another document holds.
IndexViolation(us, k, userId) ==
  /\ UserIdUnique
  /\ \E j \in 1..Len(us) : j # k /\ us[j].userId = userId

----------------------------------------------------------------------------
\* GET /api/user/profile

\* A handler that goes on after the missing userId.
NeverInvalid(userId) == FALSE

\* if (!userId) return res.status(400)...
GetProfileInvalid(userId) == Falsy(userId)

GetProfileReceive(c, userId) ==
  /\ Free(c)
  /\ LET r == Incoming("getProfile", userId, <<>>)
     IN req' = [req EXCEPT ![c] =
                  IF GetProfileInvalid(userId)
                  THEN Respond(r, 400, JsonMessage("userId is required"))
                  ELSE Await(r)]
  /\ UNCHANGED <<users, reminders>>

GetProfileResolve(c) ==
  /\ Pending(c, "getProfile")
  /\ LET user == findOne(users, req[c].q)
     IN req' = [req EXCEPT ![c] =
                  IF user = 0
                  THEN Respond(Resolved(@, Undefined), 404,
                               JsonMessage("User not found"))
                  ELSE Respond(Resolved(@, Undefined), 200,
                               JsonDoc(users[user]))]
  /\ UNCHANGED <<users, reminders>>

\* catch (err): the error is logged, the body carries no err.message.
GetProfileReject(c, m) ==
  /\ Pending(c, "getProfile")
  /\ req' = [req EXCEPT ![c] =
               Respond(Rejected(@, m), 500, JsonMessage("Server error"))]
  /\ UNCHANGED <<users, reminders>>

----------------------------------------------------------------------------
\* POST /api/user/profile

\* catch (err) of the POST and PUT profile handlers and of the reminder
\* handlers.
ServerError(r, m) == Respond(Rejected(r, m), 500, JsonError("Server error", m))

PostProfileReceive(c, body) ==
  /\ Free(c)
  /\ LET r == Incoming("postProfile", Undefined, body)
     IN req' = [req EXCEPT ![c] =
                  IF Falsy(body.userId) \/ Falsy(body.name) \/ Falsy(body.email)
                  THEN Respond(r, 400, JsonMessage("userId, name, email required"))
                  ELSE Await(r)]
  /\ UNCHANGED <<users, reminders>>

\* findOneAndUpdate with upsert, a document matches: it is updated in place
\* and returned (new: true).
PostProfileUpdate(c) ==
  /\ Pending(c, "postProfile")
  /\ LET k == findOne(users, req[c].body.userId)
     IN /\ k # 0
        /\ LET doc == SetFields(users[k], UpsertUpdate(req[c].body))
           IN /\ users' = [users EXCEPT ![k] = doc]
              /\ req' = [req EXCEPT ![c] =
                          Respond(Resolved(@, Undefined), 200, JsonDoc(doc))]
  /\ UNCHANGED reminders

\* findOneAndUpdate with upsert, no document matches: the store goes on to
\* insert one.  The query and the insert are not one atomic step of the
\* store: another write can come between them.
PostProfileMiss(c) ==
  /\ Pending(c, "postProfile")
  /\ findOne(users, req[c].body.userId) = 0
  /\ Len(users) + Cardinality({d \in DOMAIN req : req[d].pc = "inserting"})
       < MaxUsers
  /\ req' = [req EXCEPT ![c].pc = "inserting"]
  /\ UNCHANGED <<users, reminders>>

\* The insert of the upsert.
PostProfileInsert(c) ==
  /\ req[c].kind = "postProfile" /\ req[c].pc = "inserting"
  /\ ~IndexViolation(users, 0, req[c].body.userId)
  /\ LET doc == UpsertInsertDoc(req[c].body)
     IN /\ users' = Append(users, doc)
        /\ req' = [req EXCEPT ![c] =
                    Respond(Resolved(@, Undefined), 200, JsonDoc(doc))]
  /\ UNCHANGED reminders

\* The insert of the upsert hits the unique index: the store either rejects
\* the call with a duplicate-key error (the handler's catch answers 500) ...
PostProfileDuplicate(c) ==
  /\ req[c].kind = "postProfile" /\ req[c].pc = "inserting"
  /\ IndexViolation(users, 0, req[c].body.userId)
  /\ req' = [req EXCEPT ![c] = ServerError(@, DuplicateKey)]
  /\ UNCHANGED <<users, reminders>>

\* ... or runs the same upsert again, as an update of the document found.
PostProfileRequery(c) ==
  /\ req[c].kind = "postProfile" /\ req[c].pc = "inserting"
  /\ IndexViolation(users, 0, req[c].body.userId)
  /\ req' = [req EXCEPT ![c].pc = "pending"]
  /\ UNCHANGED <<users, reminders>>

PostProfileReject(c, m) ==
  /\ req[c].kind = "postProfile" /\ req[c].pc \in {"pending", "inserting"}
  /\ req' = [req EXCEPT ![c] = ServerError(@, m)]
  /\ UNCHANGED <<users, reminders>>

----------------------------------------------------------------------------
\* PUT /api/user/profile

PutProfileReceive(c, userId, body) ==
  /\ Free(c)
  /\ LET r == Incoming("putProfile", userId, body)
     IN req' = [req EXCEPT ![c] =
                  IF Falsy(userId)
                  THEN Respond(r, 400, JsonMessage("userId is required"))
                  ELSE Await(r)]
  /\ UNCHANGED <<users, reminders>>

\* findOneAndUpdate({ userId }, { $set: req.body }, { new: true })
PutProfileResolve(c) ==
  /\ Pending(c, "putProfile")
  /\ LET k == findOne(users, req[c].q)
     IN IF k = 0
        THEN /\ req' = [req EXCEPT ![c] =
                          Respond(Resolved(@, Undefined), 404,
                                  JsonMessage("User not found"))]
             /\ UNCHANGED users
        ELSE LET doc == SetFields(users[k], req[c].body)
             IN IF IndexViolation(users, k, doc.userId)
                THEN /\ req' = [req EXCEPT ![c] = ServerError(@, DuplicateKey)]
                     /\ UNCHANGED users
                ELSE /\ users' = [users EXCEPT ![k] = doc]
                     /\ req' = [req EXCEPT ![c] =
                                  Respond(Resolved(@, Undefined), 200,
                                          JsonDoc(doc))]
  /\ UNCHANGED reminders

PutProfileReject(c, m) ==
  /\ Pending(c, "putProfile")
  /\ req' = [req EXCEPT ![c] = ServerError(@, m)]
  /\ UNCHANGED <<users, reminders>>

----------------------------------------------------------------------------
\* Inputs of the profile handlers.

UserIdVals == {Undefined, "", "u1", "u2"}
NameVals == {Undefined, "n1", "n2"}
EmailVals == {Undefined, "e1"}
AgeVals == {Undefined, "a1"}

ProfileBodies ==
  [userId : UserIdVals, name : NameVals, email : EmailVals, age : AgeVals]

\* Bodies of a PUT: any subset of userId, name and age.
PutBodies ==
  [userId : UserIdVals, name : {Undefined, "n2"}, email : {Undefined},
   age : AgeVals]

\* One client, one request at a time, every profile input.
InitOne ==
  /\ users = <<>>
  /\ reminders = <<>>
  /\ req = [c \in {1} |-> Idle]

NextProfile ==
  \/ \E c \in DOMAIN req, u \in UserIdVals : GetProfileReceive(c, u)
  \/ \E c \in DOMAIN req : GetProfileResolve(c)
  \/ \E c \in DOMAIN req, m \in ErrMsgs : GetProfileReject(c, m)
  \/ \E c \in DOMAIN req, b \in ProfileBodies : PostProfileReceive(c, b)
  \/ \E c \in DOMAIN req : PostProfileUpdate(c)
  \/ \E c \in DOMAIN req : PostProfileMiss(c)
  \/ \E c \in DOMAIN req : PostProfileInsert(c)
  \/ \E c \in DOMAIN req, m \in ErrMsgs : PostProfileReject(c, m)
  \/ \E c \in DOMAIN req, u \in UserIdVals, b \in PutBodies :
        PutProfileReceive(c, u, b)
  \/ \E c \in DOMAIN req : PutProfileResolve(c)
  \/ \E c \in DOMAIN req, m \in ErrMsgs : PutProfileReject(c, m)

SpecProfile == InitOne /\ [][NextProfile]_vars

\* One client that fetches and posts profiles only.
NextUpsert ==
  \/ \E c \in DOMAIN req, u \in UserIdVals : GetProfileReceive(c, u)
  \/ \E c \in DOMAIN req : GetProfileResolve(c)
  \/ \E c \in DOMAIN req, m \in ErrMsgs : GetProfileReject(c, m)
  \/ \E c \in DOMAIN req, b \in ProfileBodies : PostProfileReceive(c, b)
  \/ \E c \in DOMAIN req : PostProfileUpdate(c)
  \/ \E c \in DOMAIN req : PostProfileMiss(c)
  \/ \E c \in DOMAIN req : PostProfileInsert(c)
  \/ \E c \in DOMAIN req, m \in ErrMsgs : PostProfileReject(c, m)

SpecUpsert == InitOne /\ [][NextUpsert]_vars

----------------------------------------------------------------------------
\* The reminders collection (models/Reminder): documents in insertion
\* order, _id is generated by the store.

\* Reminder.find({ userId })
find(rs, userId) == SelectSeq(rs, LAMBDA d : d.userId = userId)

\* .sort({ dueDate: -1 })
DueDateDescending(a, b) == a.dueDate >= b.dueDate

\* The order .sort({ dueDate: 1 }) asks for between neighbours.
DueDateOrder(a, b) == a.dueDate <= b.dueDate

\* .sort({ dueDate: 1 }): every arrangement of found in ascending dueDate;
\* the store does not fix the order of documents with equal dueDate.
sort(found) ==
  { [i \in 1..Len(found) |-> found[p[i]]] : p \in
      { q \in Permutations(1..Len(found)) :
          \A i \in 1..(Len(found) - 1) :
            DueDateOrder(found[q[i]], found[q[i + 1]]) } }

\* GET /api/reminders

GetRemindersReceive(c, userId) ==
  /\ Free(c)
  /\ LET r == Incoming("getReminders", userId, <<>>)
     IN req' = [req EXCEPT ![c] =
                  IF Falsy(userId)
                  THEN Respond(r, 400, JsonMessage("userId is required"))
                  ELSE Await(r)]
  /\ UNCHANGED <<users, reminders>>

GetRemindersResolve(c) ==
  /\ Pending(c, "getReminders")
  /\ \E result \in sort(find(reminders, req[c].q)) :
       req' = [req EXCEPT ![c] =
                 Respond(Resolved(@, Undefined), 200, JsonList(result))]
  /\ UNCHANGED <<users, reminders>>

GetRemindersReject(c, m) ==
  /\ Pending(c, "getReminders")
  /\ req' = [req EXCEPT ![c] = ServerError(@, m)]
  /\ UNCHANGED <<users, reminders>>

\* POST /api/reminders

PostReminderReceive(c, body) ==
  /\ Free(c)
  /\ LET r == Incoming("postReminder", Undefined, body)
     IN req' = [req EXCEPT ![c] =
                  IF Falsy(body.userId) \/ Falsy(body.title)
                     \/ body.dueDate = NoDate
                  THEN Respond(r, 400,
                               JsonMessage("userId, title, dueDate required"))
                  ELSE Await(r)]
  /\ UNCHANGED <<users, reminders>>

\* new Reminder({ userId, title, dueDate, description }).save()
PostReminderResolve(c) ==
  /\ Pending(c, "postReminder")
  /\ Len(reminders) < MaxReminders
  /\ LET b == req[c].body
         newReminder == [_id |-> Len(reminders) + 1, userId |-> b.userId,
                         title |-> b.title, dueDate |-> b.dueDate,
                         description |-> b.description]
     IN /\ reminders' = Append(reminders, newReminder)
        /\ req' = [req EXCEPT ![c] =
                    Respond(Resolved(@, Undefined), 201, JsonDoc(newReminder))]
  /\ UNCHANGED users

PostReminderReject(c, m) ==
  /\ Pending(c, "postReminder")
  /\ req' = [req EXCEPT ![c] = ServerError(@, m)]
  /\ UNCHANGED <<users, reminders>>

TitleVals == {Undefined, "t1"}
DueDateVals == {NoDate, 1, 2}
DescriptionVals == {Undefined, "d1"}

ReminderBodies ==
  [userId : UserIdVals, title : TitleVals, dueDate : DueDateVals,
   description : DescriptionVals]

NextReminders ==
  \/ \E c \in DOMAIN req, u \in UserIdVals : GetRemindersReceive(c, u)
  \/ \E c \in DOMAIN req : GetRemindersResolve(c)
  \/ \E c \in DOMAIN req, m \in ErrMsgs : GetRemindersReject(c, m)
  \/ \E c \in DOMAIN req, b \in ReminderBodies : PostReminderReceive(c, b)
  \/ \E c \in DOMAIN req : PostReminderResolve(c)
  \/ \E c \in DOMAIN req, m \in ErrMsgs : PostReminderReject(c, m)

SpecReminders == InitOne /\ [][NextReminders]_vars

----------------------------------------------------------------------------
\* The completion API (groq.chat.completions.create).  A JSON value that may
\* or may not be an array is a record: its tag ("undefined", "null",
\* "string" or "array") and, for an array, its items.

IsArray(v) == v.tag = "array"

NotArray(tag) == [tag |-> tag, items |-> <<>>]

Array(items) == [tag |-> "array", items |-> items]

SeqsUpTo(S, n) == UNION { [1..k -> S] : k \in 0..n }

\* symptoms.join(', ')
RECURSIVE join(_)
join(items) ==
  IF Len(items) = 0 THEN ""
  ELSE IF Len(items) = 1 THEN items[1]
  ELSE items[1] \o ", " \o join(Tail(items))

\* A check that forgets the empty list.
SymptomsNotArray(symptoms) == ~IsArray(symptoms)

\* !Array.isArray(symptoms) || symptoms.length === 0
SymptomsInvalid(symptoms) == ~IsArray(symptoms) \/ Len(symptoms.items) = 0

SymptomPrompt(items) ==
  "Given these symptoms: " \o join(items)
    \o ", list possible medical conditions and advice."

\* chatCompletion.choices[0]?.message?.content || fallback
ContentOr(content, fallback) == IF Falsy(content) THEN fallback ELSE content

\* POST /api/symptom-checker/identify

SymptomReceive(c, body) ==
  /\ Free(c)
  /\ LET r == Incoming("symptom", Undefined, body)
     IN req' = [req EXCEPT ![c] =
                  IF SymptomsInvalid(body.symptoms)
                  THEN Respond(r, 400, JsonMessage("Symptoms array required"))
                  ELSE Await([r EXCEPT !.sent =
                         <<[role |-> "user",
                            content |-> SymptomPrompt(body.symptoms.items)]>>])]
  /\ UNCHANGED <<users, reminders>>

SymptomResolve(c, content) ==
  /\ Pending(c, "symptom")
  /\ req' = [req EXCEPT ![c] =
               Respond(Resolved(@, content), 200, [EmptyJson EXCEPT !.result =
                                  ContentOr(content, "No information found.")])]
  /\ UNCHANGED <<users, reminders>>

SymptomReject(c, m) ==
  /\ Pending(c, "symptom")
  /\ req' = [req EXCEPT ![c] =
               Respond(Rejected(@, m), 500,
                       JsonError("Symptom checker error", m))]
  /\ UNCHANGED <<users, reminders>>

\* POST /api/chat

SystemMessage ==
  [role |-> "system",
   content |-> "You are a helpful health assistant. Provide general info, do not diagnose. Suggest users consult a doctor."]

\* A destructuring without the default.
ChatHistoryAsGiven(chatHistory) == chatHistory

\* const { message, chatHistory = [] } = req.body: the default replaces
\* undefined only.
ChatHistoryDefault(chatHistory) ==
  IF chatHistory.tag = "undefined" THEN Array(<<>>) ELSE chatHistory

\* (m) => ({ role: m.role, content: m.message || m.content })
ChatTurn(m) ==
  [role |-> m.role,
   content |-> IF Falsy(m.message) THEN m.content ELSE m.message]

ChatMessages(message, history) ==
  <<SystemMessage>>
    \o [i \in 1..Len(history) |-> ChatTurn(history[i])]
    \o <<[role |-> "user", content |-> message]>>

\* The TypeError of ...chatHistory.map(...) when chatHistory is no array:
\* null (and undefined) have no properties, any other value has no map.
NullMapError == "Cannot read properties of null (reading 'map')"

UndefinedMapError == "Cannot read properties of undefined (reading 'map')"

NotAFunctionError ==
  "chatHistory.map is not a function or its return value is not iterable"

MapError(chatHistory) ==
  IF chatHistory.tag = "null" THEN NullMapError
  ELSE IF chatHistory.tag = "undefined" THEN UndefinedMapError
  ELSE NotAFunctionError

ChatReceive(c, body) ==
  /\ Free(c)
  /\ LET r == Incoming("chat", Undefined, body)
         chatHistory == ChatHistoryDefault(body.chatHistory)
     IN req' = [req EXCEPT ![c] =
                  IF Falsy(body.message)
                  THEN Respond(r, 400, JsonMessage("Message is required"))
                  ELSE IF ~IsArray(chatHistory)
                  THEN Respond(r, 500,
                               JsonError("Chat error", MapError(chatHistory)))
                  ELSE Await([r EXCEPT !.sent =
                         ChatMessages(body.message, chatHistory.items)])]
  /\ UNCHANGED <<users, reminders>>

ChatResolve(c, content) ==
  /\ Pending(c, "chat")
  /\ req' = [req EXCEPT ![c] =
               Respond(Resolved(@, content), 200, [EmptyJson EXCEPT !.response =
                                  ContentOr(content, "No response.")])]
  /\ UNCHANGED <<users, reminders>>

ChatReject(c, m) ==
  /\ Pending(c, "chat")
  /\ req' = [req EXCEPT ![c] =
               Respond(Rejected(@, m), 500, JsonError("Chat error", m))]
  /\ UNCHANGED <<users, reminders>>

\* Inputs of the completion handlers, and what the vendor answers.
SymptomVals ==
  {NotArray("undefined"), NotArray("string")}
    \cup { Array(s) : s \in SeqsUpTo({"s1", "s2"}, MaxSymptoms) }

SymptomBodies == [symptoms : SymptomVals, other : {Undefined, "x"}]

TurnVals ==
  [role : {"user", "assistant"}, message : {Undefined, "q1"}, content : {Undefined, "a1"}]

ChatHistoryVals ==
  {NotArray("undefined"), NotArray("null"), NotArray("string")}
    \cup { Array(s) : s \in SeqsUpTo(TurnVals, MaxHistory) }

ChatBodies == [message : {Undefined, "", "hi"}, chatHistory : ChatHistoryVals]

ContentVals == {Undefined, "", "r1"}

NextAI ==
  \/ \E c \in DOMAIN req, b \in SymptomBodies : SymptomReceive(c, b)
  \/ \E c \in DOMAIN req, t \in ContentVals : SymptomResolve(c, t)
  \/ \E c \in DOMAIN req, m \in ErrMsgs : SymptomReject(c, m)
  \/ \E c \in DOMAIN req, b \in ChatBodies : ChatReceive(c, b)
  \/ \E c \in DOMAIN req, t \in ContentVals : ChatResolve(c, t)
  \/ \E c \in DOMAIN req, m \in ErrMsgs : ChatReject(c, m)

SpecAI == InitOne /\ [][NextAI]_vars

----------------------------------------------------------------------------
\* Several clients at once: the profile handlers interleave at their awaits.

InitMany ==
  /\ users = <<>>
  /\ reminders = <<>>
  /\ req = [c \in 1..MaxConn |-> Idle]

ConcurrentIds == {"u1", "u2"}

ConcurrentPostBodies ==
  [userId : ConcurrentIds, name : {"n1"}, email : {"e1"}, age : {Undefined}]

ConcurrentPutBodies ==
  [userId : {Undefined, "u1", "u2"}, name : {Undefined}, email : {Undefined},
   age : {Undefined}]

NextConcurrent ==
  \/ \E c \in DOMAIN req, u \in ConcurrentIds : GetProfileReceive(c, u)
  \/ \E c \in DOMAIN req : GetProfileResolve(c)
  \/ \E c \in DOMAIN req, m \in ErrMsgs : GetProfileReject(c, m)
  \/ \E c \in DOMAIN req, b \in ConcurrentPostBodies : PostProfileReceive(c, b)
  \/ \E c \in DOMAIN req : PostProfileUpdate(c)
  \/ \E c \in DOMAIN req : PostProfileMiss(c)
  \/ \E c \in DOMAIN req : PostProfileInsert(c)
  \/ \E c \in DOMAIN req : PostProfileDuplicate(c)
  \/ \E c \in DOMAIN req : PostProfileRequery(c)
  \/ \E c \in DOMAIN req, m \in ErrMsgs : PostProfileReject(c, m)
  \/ \E c \in DOMAIN req, u \in ConcurrentIds, b \in ConcurrentPutBodies :
        PutProfileReceive(c, u, b)
  \/ \E c \in DOMAIN req : PutProfileResolve(c)
  \/ \E c \in DOMAIN req, m \in ErrMsgs : PutProfileReject(c, m)

SpecConcurrent == InitMany /\ [][NextConcurrent]_vars

----------------------------------------------------------------------------
\* Every handler, one client, a few inputs of each handler.

SomeIds == {Undefined, "u1"}

SomeProfileBodies ==
  [userId : SomeIds, name : {"n1"}, email : {"e1"}, age : {Undefined}]

SomeReminderBodies ==
  [userId : {"u1"}, title : {"t1"}, dueDate : {NoDate, 1},
   description : {Undefined}]

SomeSymptomBodies ==
  [symptoms : {Array(<<>>), Array(<<"s1">>)}, other : {Undefined}]

SomeChatBodies ==
  [message : {Undefined, "hi"},
   chatHistory : {NotArray("undefined"), NotArray("null"), NotArray("string")}]

Next ==
  \/ \E c \in DOMAIN req, u \in SomeIds : GetProfileReceive(c, u)
  \/ \E c \in DOMAIN req : GetProfileResolve(c)
  \/ \E c \in DOMAIN req, m \in ErrMsgs : GetProfileReject(c, m)
  \/ \E c \in DOMAIN req, b \in SomeProfileBodies : PostProfileReceive(c, b)
  \/ \E c \in DOMAIN req : PostProfileUpdate(c)
  \/ \E c \in DOMAIN req : PostProfileMiss(c)
  \/ \E c \in DOMAIN req : PostProfileInsert(c)
  \/ \E c \in DOMAIN req, m \in ErrMsgs : PostProfileReject(c, m)
  \/ \E c \in DOMAIN req, u \in SomeIds, b \in SomeProfileBodies :
        PutProfileReceive(c, u, b)
  \/ \E c \in DOMAIN req : PutProfileResolve(c)
  \/ \E c \in DOMAIN req, m \in ErrMsgs : PutProfileReject(c, m)
  \/ \E c \in DOMAIN req, u \in SomeIds : GetRemindersReceive(c, u)
  \/ \E c \in DOMAIN req : GetRemindersResolve(c)
  \/ \E c \in DOMAIN req, m \in ErrMsgs : GetRemindersReject(c, m)
  \/ \E c \in DOMAIN req, b \in SomeReminderBodies : PostReminderReceive(c, b)
  \/ \E c \in DOMAIN req : PostReminderResolve(c)
  \/ \E c \in DOMAIN req, m \in ErrMsgs : PostReminderReject(c, m)
  \/ \E c \in DOMAIN req, b \in SomeSymptomBodies : SymptomReceive(c, b)
  \/ \E c \in DOMAIN req, t \in ContentVals : SymptomResolve(c, t)
  \/ \E c \in DOMAIN req, m \in ErrMsgs : SymptomReject(c, m)
  \/ \E c \in DOMAIN req, b \in SomeChatBodies : ChatReceive(c, b)
  \/ \E c \in DOMAIN req, t \in ContentVals : ChatResolve(c, t)
  \/ \E c \in DOMAIN req, m \in ErrMsgs : ChatReject(c, m)

Spec == InitOne /\ [][Next]_vars

----------------------------------------------------------------------------
\* Properties.

Done(c, kind) == req[c].kind = kind /\ req[c].pc = "done"

\* The positions of the stored user records whose userId is u.
Held(u) == {k \in 1..Len(users) : users[k].userId = u}

\* C1: right after a successful POST /api/user/profile the store holds
\* exactly one user record with the posted userId, and its name is the
\* posted name (so after a sequence of such POSTs, the name of the latest).
C1_UpsertKeepsOneRecord ==
  \A c \in DOMAIN req :
    (Done(c, "postProfile") /\ req[c].status = 200) =>
      /\ Cardinality(Held(req[c].body.userId)) = 1
      /\ \A k \in Held(req[c].body.userId) : users[k].name = req[c].body.name

\* A successful POST that replaced the name of a record an earlier write
\* had given an age.
C1_Witness ==
  \E c \in DOMAIN req :
    /\ Done(c, "postProfile") /\ req[c].status = 200
    /\ req[c].body.name = "n2" /\ req[c].body.age = Undefined
    /\ \E k \in Held(req[c].body.userId) :
         users[k].name = "n2" /\ users[k].age = "a1"

\* What a successful POST leaves and returns: the record with the posted
\* userId, name and email.
PostCreates(r) ==
  r.status = 200 =>
    \E k \in Held(r.body.userId) :
      /\ users[k].name = r.body.name
      /\ users[k].email = r.body.email
      /\ r.res.data = <<users[k]>>

\* What a GET answers: 404 with no record of that userId, else 200 with the
\* stored record.
GetFetches(r) ==
  IF Held(r.q) = {}
  THEN r.status = 404
  ELSE /\ r.status = 200
       /\ \E k \in Held(r.q) : r.res.data = <<users[k]>>

\* C2 as stated: a GET with a non-empty userId answers 404 when the store
\* holds no record of it and, once a POST has created the record, 200 with
\* the posted userId, name and email.
C2_FetchAfterCreate ==
  \A c \in DOMAIN req :
    /\ Done(c, "postProfile") => PostCreates(req[c])
    /\ (Done(c, "getProfile") /\ ~Falsy(req[c].q)) => GetFetches(req[c])

\* C2 amended: the same, unless the GET's store call fails, and then the
\* answer is 500.
C2_FetchAfterCreateUnlessStoreFails ==
  \A c \in DOMAIN req :
    /\ Done(c, "postProfile") => PostCreates(req[c])
    /\ (Done(c, "getProfile") /\ ~Falsy(req[c].q)) =>
         IF req[c].settled = "rejected"
         THEN req[c].status = 500
         ELSE GetFetches(req[c])

\* A GET that returned a record a POST created.
C2_Witness ==
  \E c \in DOMAIN req :
    /\ Done(c, "getProfile") /\ req[c].status = 200
    /\ req[c].res.data[1].userId = req[c].q
    /\ req[c].res.data[1].name = "n1"
    /\ req[c].res.data[1].email = "e1"

\* C3: a successful GET /api/reminders?userId=u returns every stored
\* reminder of u once, no other reminder, each dueDate at most the next.
C3_RemindersOfUserAscending ==
  \A c \in DOMAIN req :
    (Done(c, "getReminders") /\ req[c].status = 200) =>
      LET data == req[c].res.data
          mine == {k \in 1..Len(reminders) : reminders[k].userId = req[c].q}
      IN /\ Len(data) = Cardinality(mine)
         /\ \A k \in mine : \E i \in 1..Len(data) : data[i] = reminders[k]
         /\ \A i \in 1..Len(data) : \E k \in mine : data[i] = reminders[k]
         /\ \A i \in 1..(Len(data) - 1) : data[i].dueDate <= data[i + 1].dueDate

\* A list whose order differs from the insertion order, while the store
\* also holds another user's reminder.
C3_Witness ==
  \E c \in DOMAIN req :
    /\ Done(c, "getReminders") /\ req[c].status = 200
    /\ Len(req[c].res.data) = 2
    /\ req[c].res.data[1]._id > req[c].res.data[2]._id
    /\ req[c].res.data[1].dueDate < req[c].res.data[2].dueDate
    /\ \E k \in 1..Len(reminders) : reminders[k].userId # req[c].q

\* C4: a symptom-checker request whose symptoms is missing, not a list or
\* the empty list is answered 400 at once, whatever else the body holds,
\* and no completion call is made for it.
C4_EmptySymptomsRefused ==
  \A c \in DOMAIN req :
    (req[c].kind = "symptom"
       /\ (req[c].body.symptoms.tag # "array"
             \/ req[c].body.symptoms.items = <<>>)) =>
      /\ req[c].pc = "done"
      /\ req[c].status = 400
      /\ req[c].calls = 0
      /\ req[c].sent = <<>>
      /\ req[c].settled = "no"

\* The empty list, sent with another field, refused.
C4_Witness ==
  \E c \in DOMAIN req :
    /\ Done(c, "symptom") /\ req[c].status = 400
    /\ req[c].body.symptoms = Array(<<>>)
    /\ req[c].body.other = "x"

\* What a chat request without history does, as a function of its message
\* and of the vendor's outcome alone.
ChatWithoutHistory(r) ==
  IF Falsy(r.body.message)
  THEN /\ r.pc = "done" /\ r.status = 400 /\ r.calls = 0 /\ r.sent = <<>>
       /\ r.res = JsonMessage("Message is required")
  ELSE /\ r.calls = 1
       /\ r.sent = <<SystemMessage, [role |-> "user", content |-> r.body.message]>>
       /\ r.pc = "done" =>
            \/ /\ r.settled = "resolved" /\ r.status = 200
               /\ r.res = [EmptyJson EXCEPT !.response =
                             IF r.value \in {Undefined, ""}
                             THEN "No response." ELSE r.value]
            \/ /\ r.settled = "rejected" /\ r.status = 500
               /\ r.res = JsonError("Chat error", r.value)

\* C5: a chat request with chatHistory omitted and one with chatHistory []
\* behave alike: both are refused with 400 without a message, and otherwise
\* both send the system instruction followed by the user message and give,
\* for the same vendor outcome, the same status and body.
C5_OmittedHistoryIsEmptyHistory ==
  \A c \in DOMAIN req :
    (req[c].kind = "chat"
       /\ req[c].body.chatHistory \in {NotArray("undefined"), Array(<<>>)}) =>
      ChatWithoutHistory(req[c])

\* A chat request without chatHistory, answered by the vendor.
C5_Witness ==
  \E c \in DOMAIN req :
    /\ Done(c, "chat") /\ req[c].status = 200
    /\ req[c].body.chatHistory = NotArray("undefined")
    /\ req[c].res.response = "r1"

\* C6: whenever a handler's store call or completion call fails with
\* message m, the answer is 500 with a non-empty message field and with m.
C6_ServerErrorCarriesMessage ==
  \A c \in DOMAIN req :
    (req[c].pc = "done" /\ req[c].settled = "rejected") =>
      /\ req[c].status = 500
      /\ ~Falsy(req[c].res.message)
      /\ req[c].res.error = req[c].value

\* The step in which the store call of the PUT on connection c settles.
PutSettles(c) ==
  /\ req[c].kind = "putProfile" /\ req[c].pc = "pending"
  /\ req'[c].pc = "done"

\* The PUT's effect as C7 states it.
PutMerges(c) ==
  /\ Len(users') = Len(users)
  /\ IF Held(req[c].q) = {}
     THEN req'[c].status = 404 /\ users' = users
     ELSE /\ req'[c].status = 200
          /\ \E k \in Held(req[c].q) :
               /\ \A f \in ProfileFields :
                    users'[k][f] = IF req[c].body[f] # Undefined
                                   THEN req[c].body[f] ELSE users[k][f]
               /\ \A j \in 1..Len(users) : j # k => users'[j] = users[j]

\* C7 as stated: a PUT with a non-empty query userId creates no record;
\* with no record of that userId it answers 404 and changes nothing, with
\* one it answers 200, sets the body's fields and changes nothing else.
C7_PutMergesBodyOnly ==
  [][\A c \in DOMAIN req : PutSettles(c) => PutMerges(c)]_vars

\* C7 amended: the same, unless the store call fails (as it does when the
\* body gives the record a userId another record holds), and then the
\* answer is 500 and the store is unchanged.
C7_PutMergesBodyOnlyUnlessStoreFails ==
  [][\A c \in DOMAIN req :
       PutSettles(c) =>
         IF req'[c].settled = "rejected"
         THEN req'[c].status = 500 /\ users' = users
         ELSE PutMerges(c)]_vars

\* A PUT that set the age and left the name of the record.
C7_Witness ==
  \E c \in DOMAIN req :
    /\ Done(c, "putProfile") /\ req[c].status = 200
    /\ req[c].body.age = "a1" /\ req[c].body.name = Undefined
    /\ req[c].body.userId = Undefined
    /\ Len(users) = 2
    /\ \E k \in Held(req[c].q) : users[k].age = "a1" /\ users[k].name = "n1"

\* C8: a write without its required fields is answered 400 without a
\* store call, and every stored user record and reminder has a non-empty
\* userId.
C8_WritesNeedUserId ==
  /\ \A c \in DOMAIN req :
       /\ (req[c].kind = "postProfile"
             /\ (Falsy(req[c].body.userId) \/ Falsy(req[c].body.name)
                   \/ Falsy(req[c].body.email))) =>
            req[c].status = 400 /\ req[c].calls = 0
       /\ (req[c].kind = "putProfile" /\ Falsy(req[c].q)) =>
            req[c].status = 400 /\ req[c].calls = 0
       /\ (req[c].kind = "postReminder"
             /\ (Falsy(req[c].body.userId) \/ Falsy(req[c].body.title)
                   \/ req[c].body.dueDate = 0)) =>
            req[c].status = 400 /\ req[c].calls = 0
  /\ \A k \in 1..Len(users) : ~Falsy(users[k].userId)
  /\ \A k \in 1..Len(reminders) : ~Falsy(reminders[k].userId)

\* C9: no two stored user records have the same userId, however the
\* profile requests of several clients interleave.
C9_UserIdIsKey ==
  \A j, k \in 1..Len(users) : j # k => users[j].userId # users[k].userId

\* One client lost the race of two POSTs for the same new userId, and a
\* PUT that would have given a record another record's userId was refused.
C9_Witness ==
  \E c, d \in DOMAIN req :
    /\ Done(c, "postProfile") /\ req[c].res.error = DuplicateKey
    /\ Done(d, "putProfile") /\ req[d].res.error = DuplicateKey
    /\ req[d].body.userId = req[c].body.userId
    /\ Len(users) = 2

\* C10: a request makes no call when its validation fails and one call
\* otherwise, a settled call is never issued again, and the request gets
\* its one response when the call settles.
C10_OneCallOneResponse ==
  \A c \in DOMAIN req :
    LET r == req[c]
        refused ==
          \/ r.kind \in {"getProfile", "putProfile", "getReminders"} /\ Falsy(r.q)
          \/ r.kind = "postProfile"
               /\ (Falsy(r.body.userId) \/ Falsy(r.body.name) \/ Falsy(r.body.email))
          \/ r.kind = "postReminder"
               /\ (Falsy(r.body.userId) \/ Falsy(r.body.title) \/ r.body.dueDate = 0)
          \/ r.kind = "symptom"
               /\ (r.body.symptoms.tag # "array" \/ r.body.symptoms.items = <<>>)
          \/ r.kind = "chat" /\ Falsy(r.body.message)
    IN /\ r.calls <= 1 /\ r.resps <= 1
       /\ r.resps = 1 <=> r.pc = "done"
       /\ r.kind # "none" /\ refused => r.calls = 0 /\ r.status = 400
       /\ r.pc \in {"pending", "inserting"} => r.calls = 1 /\ r.settled = "no"
       /\ r.settled # "no" => r.calls = 1 /\ r.pc = "done"
       /\ r.settled = "rejected" => r.status = 500

\* A request whose one call failed and was answered once.
C10_Witness ==
  \E c \in DOMAIN req :
    /\ req[c].pc = "done" /\ req[c].settled = "rejected"
    /\ req[c].calls = 1 /\ req[c].resps = 1 /\ req[c].status = 500

====
